---- MODULE Spec2Model ----
(***************************************************************************)
(* A model of Reaktoro's ChemicalState (src/Reaktoro/Core/ChemicalState.cpp)*)
(* and of Reaktor's Partition (src/Reaktor/Core/Partition.cpp).            *)
(*                                                                         *)
(* A C++ double is modelled as an exact rational <<num, den>> with den > 0 *)
(* in lowest terms, so that the products and quotients the code computes   *)
(* are computed here too; rounding, infinities and NaN are not modelled.   *)
(***************************************************************************)
EXTENDS Integers, Sequences, FiniteSets, TLC

VARIABLES
    heap,       \* cell -> the ChemicalState::Impl stored there (Nil: none)
    pimpl,      \* ChemicalState handle -> the cell of its Impl (0: none)
    last,       \* the last ChemicalState call: operation, arguments, status,
                \* and the memory just before it
    calls,      \* the number of ChemicalState calls since the construction
    partition,  \* the Partition::Impl of the last Partition constructed
    made,       \* the call that constructed it and its arguments
    query,      \* the last extract call: the expression and its outcome
    solver,     \* the KineticSolver: partition, options, cached decomposition
    run         \* the run of KineticSolver calls: their number, the caller's
                \* time t, the last call with its last step and, for solve,
                \* its position and the number of its steps

vars == <<heap, pimpl, last, calls, partition, made, query, solver, run>>

\* ------------------------------------------------------------------------
\* Bounds of the exploration
\* ------------------------------------------------------------------------

\* The number of ChemicalState calls explored after a construction.
MaxCalls == 3

\* ------------------------------------------------------------------------
\* double, as exact rationals
\* ------------------------------------------------------------------------

Abs(i) == IF i < 0 THEN -i ELSE i

RECURSIVE GCD(_, _)
GCD(a, b) == IF b = 0 THEN a ELSE GCD(b, a % b)

\* The rational a/b (b # 0) in lowest terms with a positive denominator.
R(a, b) ==
    LET g == GCD(Abs(a), Abs(b))
        s == IF b < 0 THEN -1 ELSE 1
    IN  <<(s * a) \div g, (s * b) \div g>>

Zero == R(0, 1)

RAdd(x, y) == R(x[1] * y[2] + y[1] * x[2], x[2] * y[2])
RSub(x, y) == R(x[1] * y[2] - y[1] * x[2], x[2] * y[2])
RMul(x, y) == R(x[1] * y[1], x[2] * y[2])
\* x / y for y # 0
RDiv(x, y) == R(x[1] * y[2], x[2] * y[1])
RLt(x, y)  == x[1] * y[2] < y[1] * x[2]
RLeq(x, y) == x[1] * y[2] <= y[1] * x[2]
RGt(x, y)  == RLt(y, x)
RGeq(x, y) == RLeq(y, x)

\* Eigen's zeros(k): a vector of k zeros.
zeros(k) == [i \in 1..k |-> Zero]

\* Eigen's sum(v).
RECURSIVE sum(_)
sum(v) == IF v = <<>> THEN Zero ELSE RAdd(v[1], sum(Tail(v)))

\* Eigen's nl + nr on two vectors of the same length.
VecAdd(a, b) == [i \in 1..Len(a) |-> RAdd(a[i], b[i])]

\* ------------------------------------------------------------------------
\* The chemical system the states are bound to (an immutable fixture).
\* Species, elements and phases are indexed from 0 in the code; the vectors
\* of the model are TLA+ sequences, so index i lives at position i + 1.
\* ------------------------------------------------------------------------

\* ChemicalSystem::species(): names and molar masses (kg/mol).
Species ==
    << [name |-> "H2O(l)", molarMass |-> R(9, 500)],
       [name |-> "H+",     molarMass |-> R(1, 1000)],
       [name |-> "CO2(g)", molarMass |-> R(11, 250)] >>

\* ChemicalSystem::elements()
Elements == <<"H", "O">>

\* ChemicalSystem::phases(): each phase owns a contiguous range of species.
Phases ==
    << [name |-> "Aqueous", first |-> 0, size |-> 2],
       [name |-> "Gaseous", first |-> 2, size |-> 1] >>

numSpecies  == Len(Species)
numElements == Len(Elements)
numPhases   == Len(Phases)

indexFirstSpeciesInPhase(iphase) == Phases[iphase + 1].first
numSpeciesInPhase(iphase)        == Phases[iphase + 1].size

\* ChemicalSystem::indexSpecies(name): the index of the species with that
\* name, or numSpecies when there is none.
indexSpecies(name) ==
    IF \E i \in 0..(numSpecies - 1) : Species[i + 1].name = name
    THEN CHOOSE i \in 0..(numSpecies - 1) : Species[i + 1].name = name
    ELSE numSpecies

\* ChemicalSystem::indexPhase(name): likewise, numPhases when there is none.
indexPhase(name) ==
    IF \E i \in 0..(numPhases - 1) : Phases[i + 1].name = name
    THEN CHOOSE i \in 0..(numPhases - 1) : Phases[i + 1].name = name
    ELSE numPhases

\* Molar volume of each species in the property model of the fixture.
MolarVolumes == << R(1, 1), R(1, 1), R(2, 1) >>

\* ChemicalSystem::phaseVolumes(T, P, n).val: the volume of each phase, the
\* sum over the species of the phase of amount times molar volume.
phaseVolumes(T, P, n) ==
    [p \in 1..numPhases |->
        sum([k \in 1..Phases[p].size |->
                RMul(n[Phases[p].first + k], MolarVolumes[Phases[p].first + k])])]

\* ------------------------------------------------------------------------
\* units::convertible and units::convert
\* ------------------------------------------------------------------------

\* For each unit: its dimension, its factor to the SI unit and its offset.
Units ==
    [ kelvin  |-> [dim |-> "temperature", factor |-> R(1, 1),      offset |-> Zero],
      celsius |-> [dim |-> "temperature", factor |-> R(1, 1),      offset |-> R(5463, 20)],
      pascal  |-> [dim |-> "pressure",    factor |-> R(1, 1),      offset |-> Zero],
      bar     |-> [dim |-> "pressure",    factor |-> R(100000, 1), offset |-> Zero],
      mol     |-> [dim |-> "amount",      factor |-> R(1, 1),      offset |-> Zero],
      mmol    |-> [dim |-> "amount",      factor |-> R(1, 1000),   offset |-> Zero],
      kg      |-> [dim |-> "mass",        factor |-> R(1, 1),      offset |-> Zero],
      g       |-> [dim |-> "mass",        factor |-> R(1, 1000),   offset |-> Zero],
      molal   |-> [dim |-> "molality",    factor |-> R(1, 1),      offset |-> Zero],
      meter   |-> [dim |-> "length",      factor |-> R(1, 1),      offset |-> Zero] ]

convertible(from, to) == Units[from].dim = Units[to].dim

\* The value in `to` of val given in `from` (both of the same dimension).
convert(val, from, to) ==
    RDiv(RSub(RAdd(RMul(val, Units[from].factor), Units[from].offset),
              Units[to].offset),
         Units[to].factor)

\* ------------------------------------------------------------------------
\* ChemicalState: the data of ChemicalState::Impl and the outcome of a call
\* ------------------------------------------------------------------------

\* ChemicalState::Impl(system): T = 298.15 K, P = 1.0e+05 Pa, zero vectors.
Impl ==
    [ T |-> R(5963, 20),
      P |-> R(100000, 1),
      n |-> zeros(numSpecies),
      y |-> zeros(numElements),
      z |-> zeros(numSpecies) ]

\* A call that returned normally, leaving the data s.
Ok(s) == [status |-> "ok", st |-> s]

\* A call that raised the exception of the named check, leaving the data s.
Err(what, s) == [status |-> what, st |-> s]

\* A call that ran into undefined behaviour, the data being s at that point.
UB(s) == [status |-> "ub", st |-> s]

\* The checks that raise: grouped as the kinds of error of the taxonomy.
ValidationError ==
    { "NonPositiveTemperature", "NonPositivePressure", "NegativeAmount",
      "DimensionMismatch", "IndexOutOfRange", "NegativeVolume",
      "NegativeScalar", "PhaseOutOfRange" }
LookupError == { "UnknownSpecies" }
UnitError   == { "NonAmountOrMassUnits" }
Errors      == ValidationError \cup LookupError \cup UnitError

\* ------------------------------------------------------------------------
\* The mutators. Each takes the data of the state and the arguments and
\* yields the set of outcomes the call can have (one, unless the call runs
\* into undefined behaviour).
\* ------------------------------------------------------------------------

setTemperature(s, val) ==
    IF RGt(val, Zero)
    THEN { Ok([s EXCEPT !.T = val]) }
    ELSE { Err("NonPositiveTemperature", s) }

setTemperatureUnits(s, val, units) ==
    setTemperature(s, convert(val, units, "kelvin"))

\* setPressure accepting zero.
setPressure_NonNegative(s, val) ==
    IF RGeq(val, Zero)
    THEN { Ok([s EXCEPT !.P = val]) }
    ELSE { Err("NonPositivePressure", s) }

setPressure(s, val) ==
    IF RGt(val, Zero)
    THEN { Ok([s EXCEPT !.P = val]) }
    ELSE { Err("NonPositivePressure", s) }

setPressureUnits(s, val, units) ==
    setPressure(s, convert(val, units, "pascal"))

\* setSpeciesAmounts(double) filling the vector before it checks the value.
setSpeciesAmountsScalar_FillFirst(s, val) ==
    IF RGeq(val, Zero)
    THEN { Ok([s EXCEPT !.n = [i \in 1..Len(s.n) |-> val]]) }
    ELSE { Err("NegativeAmount", [s EXCEPT !.n = [i \in 1..Len(s.n) |-> val]]) }

\* setSpeciesAmounts(double)
setSpeciesAmountsScalar(s, val) ==
    IF RGeq(val, Zero)
    THEN { Ok([s EXCEPT !.n = [i \in 1..Len(s.n) |-> val]]) }
    ELSE { Err("NegativeAmount", s) }

\* setSpeciesAmounts(const Vector&) refusing only vectors that are too long.
setSpeciesAmountsVector_AtMost(s, n) ==
    IF Len(n) <= numSpecies
    THEN { Ok([s EXCEPT !.n = n]) }
    ELSE { Err("DimensionMismatch", s) }

\* setSpeciesAmounts(const Vector&)
setSpeciesAmountsVector(s, n) ==
    IF Len(n) = numSpecies
    THEN { Ok([s EXCEPT !.n = n]) }
    ELSE { Err("DimensionMismatch", s) }

\* rows(vec, indices) = n, stopped after its first k row assignments: row
\* indices[i] of vec receives n[i]; an index beyond the vector addresses
\* memory that is not part of the vector.
RECURSIVE rowsAssign(_, _, _, _)
rowsAssign(vec, indices, n, k) ==
    IF k = 0 THEN vec
    ELSE LET before == rowsAssign(vec, indices, n, k - 1)
         IN  IF indices[k] < Len(vec)
             THEN [before EXCEPT ![indices[k] + 1] = n[k]]
             ELSE before

\* The position of the first index beyond the vector, 0 when all are within.
FirstOutOfRange(indices, size) ==
    IF \E k \in 1..Len(indices) : indices[k] >= size
    THEN CHOOSE k \in 1..Len(indices) :
            /\ indices[k] >= size
            /\ \A j \in 1..(k - 1) : indices[j] < size
    ELSE 0

\* setSpeciesAmounts(const Vector&, const Indices&). Only the lengths are
\* compared. An index beyond the vector is undefined behaviour: a build
\* with bounds assertions stops at that row, the rows before it written; a
\* build without them writes outside the vector and goes on.
setSpeciesAmountsIndices(s, n, indices) ==
    IF Len(n) # Len(indices)
    THEN { Err("DimensionMismatch", s) }
    ELSE LET bad == FirstOutOfRange(indices, Len(s.n))
         IN  IF bad = 0
             THEN { Ok([s EXCEPT !.n = rowsAssign(s.n, indices, n, Len(indices))]) }
             ELSE { UB([s EXCEPT !.n = rowsAssign(s.n, indices, n, bad - 1)]),
                    UB([s EXCEPT !.n = rowsAssign(s.n, indices, n, Len(indices))]) }

\* setSpeciesAmount(Index, double) accepting the index numSpecies.
setSpeciesAmount_OffByOne(s, index, amount) ==
    IF ~RGeq(amount, Zero) THEN { Err("NegativeAmount", s) }
    ELSE IF ~(index <= numSpecies) THEN { Err("IndexOutOfRange", s) }
    ELSE { Ok([s EXCEPT !.n[index + 1] = amount]) }

\* setSpeciesAmount(Index, double)
setSpeciesAmount(s, index, amount) ==
    IF ~RGeq(amount, Zero) THEN { Err("NegativeAmount", s) }
    ELSE IF ~(index < numSpecies) THEN { Err("IndexOutOfRange", s) }
    ELSE { Ok([s EXCEPT !.n[index + 1] = amount]) }

\* ChemicalSystem::indexSpeciesWithError raises for an unknown name.
\* setSpeciesAmount(std::string, double)
setSpeciesAmountName(s, species, amount) ==
    IF indexSpecies(species) >= numSpecies
    THEN { Err("UnknownSpecies", s) }
    ELSE setSpeciesAmount(s, indexSpecies(species), amount)

\* setSpeciesAmount(Index, double, std::string). With mass units the molar
\* mass of species(index) is read before the index is checked: beyond the
\* species list that read is undefined behaviour, which either stops the
\* process or yields some number, whose quotient then fails one of the two
\* checks of setSpeciesAmount(Index, double).
setSpeciesAmountUnits(s, index, amount, units) ==
    IF convertible(units, "mol")
    THEN setSpeciesAmount(s, index, convert(amount, units, "mol"))
    ELSE IF convertible(units, "kg")
    THEN IF index < numSpecies
         THEN setSpeciesAmount(s, index,
                 RDiv(convert(amount, units, "kg"), Species[index + 1].molarMass))
         ELSE { UB(s), Err("NegativeAmount", s), Err("IndexOutOfRange", s) }
    ELSE { Err("NonAmountOrMassUnits", s) }

\* setSpeciesAmount(std::string, double, std::string)
setSpeciesAmountNameUnits(s, species, amount, units) ==
    IF indexSpecies(species) >= numSpecies
    THEN { Err("UnknownSpecies", s) }
    ELSE setSpeciesAmountUnits(s, indexSpecies(species), amount, units)

setElementPotentials(s, y) == { Ok([s EXCEPT !.y = y]) }

setSpeciesPotentials(s, z) == { Ok([s EXCEPT !.z = z]) }

\* scaleSpeciesAmounts with a loop that stops one species short.
scaleSpeciesAmounts_SkipLast(s, scalar) ==
    IF RGeq(scalar, Zero)
    THEN { Ok([s EXCEPT !.n = [i \in 1..Len(s.n) |->
                 IF i < Len(s.n) THEN RMul(s.n[i], scalar) ELSE s.n[i]]]) }
    ELSE { Err("NegativeScalar", s) }

scaleSpeciesAmounts(s, scalar) ==
    IF RGeq(scalar, Zero)
    THEN { Ok([s EXCEPT !.n = [i \in 1..Len(s.n) |-> RMul(s.n[i], scalar)]]) }
    ELSE { Err("NegativeScalar", s) }

\* scaleSpeciesAmountsInPhase scaling the amounts of every phase.
scaleSpeciesAmountsInPhase_EveryPhase(s, index, scalar) ==
    IF ~RGeq(scalar, Zero) THEN { Err("NegativeScalar", s) }
    ELSE IF ~(index < numPhases) THEN { Err("PhaseOutOfRange", s) }
    ELSE { Ok([s EXCEPT !.n = [i \in 1..Len(s.n) |-> RMul(s.n[i], scalar)]]) }

\* scaleSpeciesAmountsInPhase(Index, double)
scaleSpeciesAmountsInPhase(s, index, scalar) ==
    IF ~RGeq(scalar, Zero) THEN { Err("NegativeScalar", s) }
    ELSE IF ~(index < numPhases) THEN { Err("PhaseOutOfRange", s) }
    ELSE LET start == indexFirstSpeciesInPhase(index)
             size  == numSpeciesInPhase(index)
         IN  { Ok([s EXCEPT !.n =
                     [i \in 1..Len(s.n) |->
                        IF start < i /\ i <= start + size
                        THEN RMul(s.n[i], scalar)
                        ELSE s.n[i]]]) }

setVolume(s, volume) ==
    IF ~RGeq(volume, Zero) THEN { Err("NegativeVolume", s) }
    ELSE LET v      == phaseVolumes(s.T, s.P, s.n)
             vtotal == sum(v)
             scalar == IF vtotal # Zero THEN RDiv(volume, vtotal) ELSE Zero
         IN  scaleSpeciesAmounts(s, scalar)

\* setPhaseVolume(Index, double)
setPhaseVolume(s, index, volume) ==
    IF ~RGeq(volume, Zero) THEN { Err("NegativeVolume", s) }
    ELSE IF ~(index < numPhases) THEN { Err("PhaseOutOfRange", s) }
    ELSE LET v      == phaseVolumes(s.T, s.P, s.n)
             scalar == IF v[index + 1] # Zero
                       THEN RDiv(volume, v[index + 1]) ELSE Zero
         IN  scaleSpeciesAmountsInPhase(s, index, scalar)

\* setPhaseVolume(std::string, double): indexPhase does not raise.
setPhaseVolumeName(s, name, volume) ==
    setPhaseVolume(s, indexPhase(name), volume)

\* ------------------------------------------------------------------------
\* ChemicalState handles and the Impl each owns. A handle's pimpl names the
\* cell of the heap holding its Impl (0: none). The model has the handles
\* state and other (two states of the caller) and res (the state a
\* combinator returns).
\* ------------------------------------------------------------------------

Handles == {"state", "other", "res"}

\* The cell `new Impl` allocates for each handle.
Cell == [state |-> 1, other |-> 2, res |-> 3]

\* The content of a cell of the heap that holds no Impl.
Nil == [T |-> Zero, P |-> Zero, n |-> <<>>, y |-> <<>>, z |-> <<>>]

\* The Impl a handle's pimpl points to.
Deref(mem, h) == mem.heap[mem.pimpl[h]]

\* A copy constructor that shares the Impl of the other state.
copyConstruct_Shared(mem, dst, src) ==
    [ heap  |-> mem.heap,
      pimpl |-> [mem.pimpl EXCEPT ![dst] = mem.pimpl[src]] ]

\* ChemicalState(const ChemicalState& other) : pimpl(new Impl(*other.pimpl)),
\* constructing the handle dst from the handle src.
copyConstruct(mem, dst, src) ==
    [ heap  |-> [mem.heap EXCEPT ![Cell[dst]] = Deref(mem, src)],
      pimpl |-> [mem.pimpl EXCEPT ![dst] = Cell[dst]] ]

\* The memory after a member call on handle h left its Impl as s.
Store(mem, h, s) == [mem EXCEPT !.heap[mem.pimpl[h]] = s]

\* The outcomes of a call that builds its result in the handle res: its
\* status and the memory it leaves; when the call raises, res is destroyed.
Returning(mem, outs) ==
    { [status |-> o.status,
       mem    |-> IF o.status = "ok" THEN Store(mem, "res", o.st)
                  ELSE [mem EXCEPT !.pimpl["res"] = 0]] : o \in outs }

\* ------------------------------------------------------------------------
\* The combinators, on the handles l, r and state of the memory mem.
\* ------------------------------------------------------------------------

\* operator+(const ChemicalState& l, const ChemicalState& r)
operatorAdd(mem, l, r) ==
    LET m1  == copyConstruct(mem, "res", l)
        nl  == Deref(m1, l).n
        nr  == Deref(m1, r).n
    IN  Returning(m1, setSpeciesAmountsVector(Deref(m1, "res"), VecAdd(nl, nr)))

\* operator*(double scalar, const ChemicalState& state)
operatorMul(mem, scalar, state) ==
    LET m1 == copyConstruct(mem, "res", state)
    IN  Returning(m1, scaleSpeciesAmounts(Deref(m1, "res"), scalar))

\* operator*(const ChemicalState& state, double scalar)
operatorMulRight(mem, state, scalar) == operatorMul(mem, scalar, state)

\* ------------------------------------------------------------------------
\* The arguments the calls are explored with
\* ------------------------------------------------------------------------

\* setTemperature / setPressure: <<value, units>>; "" is the overload
\* without units.
TemperatureInputs ==
    { <<R(-1, 1), "">>, <<Zero, "">>, <<R(300, 1), "">>,
      <<R(-5463, 20), "celsius">>, <<R(-1, 1), "celsius">> }
PressureInputs ==
    { <<R(-1, 1), "">>, <<R(200000, 1), "">>,
      <<Zero, "bar">>, <<R(2, 1), "bar">> }

AmountInputs == { R(-1, 1), Zero, R(1, 1) }
VectorInputs ==
    { <<R(1, 1), R(2, 1)>>,
      <<R(1, 1), Zero, R(2, 1)>>,
      <<Zero, R(-1, 1), R(1, 1)>>,
      <<R(1, 1), R(1, 1), R(1, 1), R(1, 1)>> }
\* <<vector, indices>>
IndexedInputs ==
    { << <<R(2, 1)>>, <<1>> >>,
      << <<R(1, 1), R(2, 1)>>, <<0>> >>,
      << <<R(1, 1), R(2, 1)>>, <<2, 0>> >>,
      << <<R(1, 1), R(2, 1), R(1, 2)>>, <<0, 3, 1>> >>,
      << <<R(-1, 1)>>, <<0>> >> }
SpeciesIndexInputs == 0..numSpecies
SpeciesNameInputs  == { "CO2(g)", "Xx" }
\* <<amount, units>>
UnitAmountInputs ==
    { <<R(18, 1), "g">>, <<R(-18, 1), "g">>, <<R(500, 1), "mmol">>,
      <<R(1, 1), "meter">> }
PotentialInputs == { <<R(1, 1), R(2, 1)>>, <<Zero, R(1, 1), Zero>> }
VolumeInputs    == { R(-1, 1), Zero, R(2, 1) }
ScalarInputs    == { R(-1, 1), Zero, R(1, 2), R(2, 1) }
PhaseIndexInputs == 0..numPhases
PhaseNameInputs  == { "Gaseous", "Xx" }

\* The second state of the caller: constructed, then set with
\* setTemperature(310), setPressure(2 bar), setSpeciesAmounts(<<1, 0, 1>>),
\* setElementPotentials and setSpeciesPotentials.
OtherImpl ==
    [ T |-> R(310, 1),
      P |-> R(200000, 1),
      n |-> <<R(1, 1), Zero, R(1, 1)>>,
      y |-> <<R(2, 1), R(1, 1)>>,
      z |-> <<R(1, 1), Zero, Zero>> ]

\* ------------------------------------------------------------------------
\* The state machine of the ChemicalState calls
\* ------------------------------------------------------------------------

NoArgs ==
    [ val |-> Zero, units |-> "", index |-> 0, name |-> "",
      vec |-> <<>>, indices |-> <<>>, l |-> "", r |-> "" ]

Mem == [heap |-> heap, pimpl |-> pimpl]

\* The memory once the state returned by the previous combinator, a
\* temporary, is destroyed.
Settled ==
    [ heap  |-> [heap EXCEPT ![Cell["res"]] = Nil],
      pimpl |-> [pimpl EXCEPT !["res"] = 0] ]

\* The default partition and the idle records of the other components.
NoPartition ==
    [ indices_equilibrium_species |-> <<>>,
      indices_kinetic_species     |-> <<>>,
      indices_inert_species       |-> <<>> ]
NoMade  == [by |-> "Partition()", a |-> <<>>, b |-> <<>>, c |-> <<>>]
NoQuery == [str |-> <<>>, status |-> "none", kind |-> ""]

\* KineticSolver(reactions): the partition is all-kinetic, the options are
\* the default ones and no decomposition is cached.
NewSolver ==
    [ partition |-> [ indices_equilibrium_species |-> <<>>,
                      indices_kinetic_species |-> [i \in 1..numSpecies |-> i - 1],
                      indices_inert_species |-> <<>> ],
      options |-> "default",
      cache |-> NoPartition, cached |-> FALSE, stale |-> FALSE ]

\* The run of solver calls before the first one.
NoRun ==
    [ calls |-> 0, op |-> "KineticSolver", status |-> "ok", pc |-> "idle",
      t |-> 0, t0 |-> 0, t1 |-> 0, dt |-> 0, dta |-> 0, steps |-> 0,
      advanced |-> <<>>, used |-> <<>>, with |-> NoPartition,
      pre |-> [n |-> <<>>, t |-> 0, solver |-> NewSolver] ]

\* ChemicalState state(system), next to the caller's second state.
Init ==
    /\ heap = [c \in 1..3 |-> IF c = Cell["state"] THEN Impl
                              ELSE IF c = Cell["other"] THEN OtherImpl
                              ELSE Nil]
    /\ pimpl = [h \in Handles |-> IF h = "res" THEN 0 ELSE Cell[h]]
    /\ last = [op |-> "ChemicalState", args |-> NoArgs, status |-> "ok",
               pre |-> [heap |-> [c \in 1..3 |-> Nil],
                        pimpl |-> [h \in Handles |-> 0]]]
    /\ calls = 0
    /\ partition = NoPartition
    /\ made = NoMade
    /\ query = NoQuery
    /\ solver = NewSolver
    /\ run = NoRun

\* A further call is explored: the process is in a defined state and the
\* run has calls left.
CanCall == last.status # "ub" /\ calls < MaxCalls

\* A member call op(args) on the handle state, with the outcomes outs.
\* After undefined behaviour nothing more is said about the process.
Member(op, args, outs) ==
    /\ CanCall
    /\ calls' = calls + 1
    /\ \E o \in outs :
         LET m1 == Store(Settled, "state", o.st)
         IN  /\ heap' = m1.heap
             /\ pimpl' = m1.pimpl
             /\ last' = [op |-> op, args |-> args, status |-> o.status,
                         pre |-> Settled]
    /\ UNCHANGED <<partition, made, query, solver, run>>

\* A combinator call op(args), with the outcomes outs (status and memory).
Combinator(op, args, outs) ==
    /\ CanCall
    /\ calls' = calls + 1
    /\ \E o \in outs :
         /\ heap' = o.mem.heap
         /\ pimpl' = o.mem.pimpl
         /\ last' = [op |-> op, args |-> args, status |-> o.status,
                     pre |-> Settled]
    /\ UNCHANGED <<partition, made, query, solver, run>>

S == Deref(Mem, "state")

SetTemperature ==
    /\ CanCall
    /\ \E in \in TemperatureInputs :
        IF in[2] = ""
        THEN Member("setTemperature", [NoArgs EXCEPT !.val = in[1]],
                    setTemperature(S, in[1]))
        ELSE Member("setTemperature",
                    [NoArgs EXCEPT !.val = in[1], !.units = in[2]],
                    setTemperatureUnits(S, in[1], in[2]))

SetPressure ==
    /\ CanCall
    /\ \E in \in PressureInputs :
        IF in[2] = ""
        THEN Member("setPressure", [NoArgs EXCEPT !.val = in[1]],
                    setPressure(S, in[1]))
        ELSE Member("setPressure",
                    [NoArgs EXCEPT !.val = in[1], !.units = in[2]],
                    setPressureUnits(S, in[1], in[2]))

SetSpeciesAmountsScalar ==
    /\ CanCall
    /\ \E val \in AmountInputs :
        Member("setSpeciesAmounts(scalar)", [NoArgs EXCEPT !.val = val],
               setSpeciesAmountsScalar(S, val))

SetSpeciesAmountsVector ==
    /\ CanCall
    /\ \E n \in VectorInputs :
        Member("setSpeciesAmounts(vector)", [NoArgs EXCEPT !.vec = n],
               setSpeciesAmountsVector(S, n))

SetSpeciesAmountsIndices ==
    /\ CanCall
    /\ \E in \in IndexedInputs :
        Member("setSpeciesAmounts(vector,indices)",
               [NoArgs EXCEPT !.vec = in[1], !.indices = in[2]],
               setSpeciesAmountsIndices(S, in[1], in[2]))

SetSpeciesAmount ==
    /\ CanCall
    /\ \E index \in SpeciesIndexInputs, amount \in AmountInputs :
        Member("setSpeciesAmount(index)",
               [NoArgs EXCEPT !.index = index, !.val = amount],
               setSpeciesAmount(S, index, amount))

SetSpeciesAmountName ==
    /\ CanCall
    /\ \E species \in SpeciesNameInputs, amount \in AmountInputs :
        Member("setSpeciesAmount(name)",
               [NoArgs EXCEPT !.name = species, !.val = amount],
               setSpeciesAmountName(S, species, amount))

SetSpeciesAmountUnits ==
    /\ CanCall
    /\ \E index \in SpeciesIndexInputs, in \in UnitAmountInputs :
        Member("setSpeciesAmount(index,units)",
               [NoArgs EXCEPT !.index = index, !.val = in[1], !.units = in[2]],
               setSpeciesAmountUnits(S, index, in[1], in[2]))

SetSpeciesAmountNameUnits ==
    /\ CanCall
    /\ \E species \in SpeciesNameInputs, in \in UnitAmountInputs :
        Member("setSpeciesAmount(name,units)",
               [NoArgs EXCEPT !.name = species, !.val = in[1], !.units = in[2]],
               setSpeciesAmountNameUnits(S, species, in[1], in[2]))

SetElementPotentials ==
    /\ CanCall
    /\ \E y \in PotentialInputs :
        Member("setElementPotentials", [NoArgs EXCEPT !.vec = y],
               setElementPotentials(S, y))

SetSpeciesPotentials ==
    /\ CanCall
    /\ \E z \in PotentialInputs :
        Member("setSpeciesPotentials", [NoArgs EXCEPT !.vec = z],
               setSpeciesPotentials(S, z))

SetVolume ==
    /\ CanCall
    /\ \E volume \in VolumeInputs :
        Member("setVolume", [NoArgs EXCEPT !.val = volume],
               setVolume(S, volume))

SetPhaseVolume ==
    /\ CanCall
    /\ \E index \in PhaseIndexInputs, volume \in VolumeInputs :
        Member("setPhaseVolume(index)",
               [NoArgs EXCEPT !.index = index, !.val = volume],
               setPhaseVolume(S, index, volume))

SetPhaseVolumeName ==
    /\ CanCall
    /\ \E name \in PhaseNameInputs, volume \in VolumeInputs :
        Member("setPhaseVolume(name)",
               [NoArgs EXCEPT !.name = name, !.val = volume],
               setPhaseVolumeName(S, name, volume))

ScaleSpeciesAmounts ==
    /\ CanCall
    /\ \E scalar \in ScalarInputs :
        Member("scaleSpeciesAmounts", [NoArgs EXCEPT !.val = scalar],
               scaleSpeciesAmounts(S, scalar))

ScaleSpeciesAmountsInPhase ==
    /\ CanCall
    /\ \E index \in PhaseIndexInputs, scalar \in ScalarInputs :
        Member("scaleSpeciesAmountsInPhase",
               [NoArgs EXCEPT !.index = index, !.val = scalar],
               scaleSpeciesAmountsInPhase(S, index, scalar))

\* state1 + state2 over the caller's two states
Add ==
    /\ CanCall
    /\ \E l \in {"state", "other"}, r \in {"state", "other"} :
        Combinator("operator+", [NoArgs EXCEPT !.l = l, !.r = r],
                   operatorAdd(Settled, l, r))

\* scalar * state
Mul ==
    /\ CanCall
    /\ \E scalar \in ScalarInputs, h \in {"state", "other"} :
        Combinator("scalar*state", [NoArgs EXCEPT !.val = scalar, !.l = h],
                   operatorMul(Settled, scalar, h))

\* state * scalar
MulRight ==
    /\ CanCall
    /\ \E scalar \in ScalarInputs, h \in {"state"} :
        Combinator("state*scalar", [NoArgs EXCEPT !.val = scalar, !.l = h],
                   operatorMulRight(Settled, h, scalar))

\* The run ends and a new one starts: ChemicalState state(system) is
\* constructed anew, the caller's second state as before.
Construct ==
    /\ calls > 0
    /\ heap' = [c \in 1..3 |-> IF c = Cell["state"] THEN Impl
                               ELSE IF c = Cell["other"] THEN OtherImpl
                               ELSE Nil]
    /\ pimpl' = [h \in Handles |-> IF h = "res" THEN 0 ELSE Cell[h]]
    /\ last' = [op |-> "ChemicalState", args |-> NoArgs, status |-> "ok",
                pre |-> [heap |-> [c \in 1..3 |-> Nil],
                         pimpl |-> [h \in Handles |-> 0]]]
    /\ calls' = 0
    /\ UNCHANGED <<partition, made, query, solver, run>>

Next ==
    \/ SetTemperature
    \/ SetPressure
    \/ SetSpeciesAmountsScalar
    \/ SetSpeciesAmountsVector
    \/ SetSpeciesAmountsIndices
    \/ SetSpeciesAmount
    \/ SetSpeciesAmountName
    \/ SetSpeciesAmountUnits
    \/ SetSpeciesAmountNameUnits
    \/ SetElementPotentials
    \/ SetSpeciesPotentials
    \/ SetVolume
    \/ SetPhaseVolume
    \/ SetPhaseVolumeName
    \/ ScaleSpeciesAmounts
    \/ ScaleSpeciesAmountsInPhase
    \/ Add
    \/ Mul
    \/ MulRight
    \/ Construct

Spec == Init /\ [][Next]_vars

\* ------------------------------------------------------------------------
\* Partition (Indices is a std::vector<Index>: a sequence of indices)
\* ------------------------------------------------------------------------

\* The longest index list given to a Partition factory.
MaxIndices == 2

\* range(n): the indices 0, 1, ..., n - 1
range(size) == [i \in 1..size |-> i - 1]

ToSet(seq) == { seq[i] : i \in 1..Len(seq) }

\* The elements of a finite set of numbers in increasing order.
RECURSIVE Sorted(_)
Sorted(set) ==
    IF set = {} THEN <<>>
    ELSE LET least == CHOOSE x \in set : \A y \in set : x <= y
         IN  <<least>> \o Sorted(set \ {least})

\* unify(values1, values2): the union of the two lists, each value once.
unify(values1, values2) == Sorted(ToSet(values1) \cup ToSet(values2))

\* difference(values1, values2): the values of the first list that are not
\* in the second, in the order of the first.
difference(values1, values2) ==
    SelectSeq(values1, LAMBDA v : v \notin ToSet(values2))

\* Partition::Impl(iequilibrium, ikinetic, iinert)
PartitionImpl(iequilibrium, ikinetic, iinert) ==
    [ indices_equilibrium_species |-> iequilibrium,
      indices_kinetic_species     |-> ikinetic,
      indices_inert_species       |-> iinert ]

allEquilibrium == PartitionImpl(range(numSpecies), <<>>, <<>>)

allKinetic == PartitionImpl(<<>>, range(numSpecies), <<>>)

\* allEquilibriumExcept removing only the kinetic species.
allEquilibriumExcept_KineticOnly(ikinetic, iinert) ==
    PartitionImpl(difference(range(numSpecies), ikinetic), ikinetic, iinert)

allEquilibriumExcept(ikinetic, iinert) ==
    PartitionImpl(difference(range(numSpecies), unify(ikinetic, iinert)),
                  ikinetic, iinert)

\* allKineticExcept passing its lists to the constructor in the order
\* kinetic, equilibrium, inert.
allKineticExcept_Swapped(iequilibrium, iinert) ==
    PartitionImpl(difference(range(numSpecies), unify(iequilibrium, iinert)),
                  iequilibrium, iinert)

allKineticExcept(iequilibrium, iinert) ==
    PartitionImpl(iequilibrium,
                  difference(range(numSpecies), unify(iequilibrium, iinert)),
                  iinert)

\* The index lists given to the factories: every list of at most
\* MaxIndices indices, the index numSpecies (beyond the species) included.
IndexLists ==
    UNION { [1..k -> 0..numSpecies] : k \in 0..MaxIndices }

\* A Partition is constructed by the call `by` with the lists a, b, c, where
\* only the default-constructed one was before.
Make(by, a, b, c, impl) ==
    /\ made = NoMade
    /\ partition' = impl
    /\ made' = [by |-> by, a |-> a, b |-> b, c |-> c]
    /\ UNCHANGED <<heap, pimpl, last, calls, query, solver, run>>

\* Partition(iequilibrium, ikinetic, iinert)
NewPartition ==
    /\ made = NoMade
    /\ \E a \in IndexLists, b \in IndexLists, c \in {<<>>, <<0>>} :
        Make("Partition(indices)", a, b, c, PartitionImpl(a, b, c))

AllEquilibrium ==
    Make("allEquilibrium", <<>>, <<>>, <<>>, allEquilibrium)

AllKinetic ==
    Make("allKinetic", <<>>, <<>>, <<>>, allKinetic)

AllEquilibriumExcept ==
    /\ made = NoMade
    /\ \E ikinetic \in IndexLists, iinert \in IndexLists :
        Make("allEquilibriumExcept", ikinetic, iinert, <<>>,
             allEquilibriumExcept(ikinetic, iinert))

AllKineticExcept ==
    /\ made = NoMade
    /\ \E iequilibrium \in IndexLists, iinert \in IndexLists :
        Make("allKineticExcept", iequilibrium, iinert, <<>>,
             allKineticExcept(iequilibrium, iinert))

PartitionNext ==
    \/ NewPartition
    \/ AllEquilibrium
    \/ AllKinetic
    \/ AllEquilibriumExcept
    \/ AllKineticExcept

SpecPartition == Init /\ [][PartitionNext]_vars

\* ------------------------------------------------------------------------
\* extract(state, str). A std::string is modelled as a sequence of symbols:
\* the characters n, b, m, a, p, H, x, [, ], : and, as one symbol each, the
\* names of species, elements, phases and units.
\* ------------------------------------------------------------------------

\* The longest kind token of the expressions explored.
MaxKindLen == 2

RECURSIVE splitFrom(_, _, _, _)
splitFrom(str, delims, words, word) ==
    IF str = <<>>
    THEN IF word = <<>> THEN words ELSE Append(words, word)
    ELSE IF Head(str) \in delims
    THEN splitFrom(Tail(str), delims,
                   IF word = <<>> THEN words ELSE Append(words, word), <<>>)
    ELSE splitFrom(Tail(str), delims, words, Append(word, Head(str)))

\* split(str, delims): the words of str between the delimiter characters,
\* empty words dropped.
split(str, delims) == splitFrom(str, delims, <<>>, <<>>)

\* The name a word spells: its symbol when it is a single symbol; a longer
\* word names nothing of the system.
Spelled(word) == IF Len(word) = 1 THEN word[1] ELSE "?"

\* The first character of a word: of its first symbol, which is a
\* character or a name.
front(word) ==
    CASE word[1] \in {"mmol", "molal", "meter", "mol"} -> "m"
      [] word[1] \in {"H2O(l)", "H+"} -> "H"
      [] word[1] = "Xx" -> "X"
      [] word[1] = "Aqueous" -> "A"
      [] OTHER -> word[1]

IsSpecies(name) == indexSpecies(name) < numSpecies
IsElement(name) == \E i \in 1..numElements : Elements[i] = name
IsPhase(name)   == indexPhase(name) < numPhases
IsUnit(name)    == name \in DOMAIN Units

\* An extract call that returned a number computed by the branch `kind`.
Value(kind) == [status |-> "value", kind |-> kind]
\* An extract call that raised.
Raised(what) == [status |-> what, kind |-> ""]

\* An extract call that ran into undefined behaviour in the branch `kind`:
\* the process stops there, or goes on with whatever it read.
Undefined(kind) ==
    { [status |-> "ub", kind |-> ""], [status |-> "ub", kind |-> kind \o "?"] }

\* units::convert(x, from, units) raises unless the units are convertible.
Converted(kind, from, units) ==
    IF IsUnit(units) /\ convertible(from, units)
    THEN { Value(kind) } ELSE { Raised("UnitError") }

\* The outcomes of extract(state, str): the branch taken on the first
\* character of the quantity, the lookups of the names, the conversions.
\* Reading words[0] of an empty list, names[1] of a one-word list or the
\* activity at the index of an unknown species is undefined behaviour (the
\* process stops, or goes on with whatever was read).
extract(str) ==
    LET words    == split(str, {":"})
        quantity == words[1]
        given    == IF Len(words) > 1 THEN Spelled(words[2]) ELSE ""
        names    == split(quantity, {"[", "]"})
        back     == Spelled(names[Len(names)])
    IN  IF words = <<>> THEN Undefined("")
        ELSE IF front(quantity) = "n"
        THEN IF ~IsSpecies(back) THEN { Raised("LookupError") }
             ELSE Converted("n", "mol", IF given = "" THEN "mol" ELSE given)
        ELSE IF front(quantity) = "b"
        THEN IF Len(names) < 2 THEN Undefined("b")
             ELSE IF ~IsElement(Spelled(names[2])) THEN { Raised("LookupError") }
             ELSE IF Len(names) > 2 /\ ~IsPhase(Spelled(names[3]))
             THEN { Raised("LookupError") }
             ELSE Converted("b", "mol", IF given = "" THEN "mol" ELSE given)
        ELSE IF front(quantity) = "m"
        THEN IF ~IsSpecies(back) THEN { Raised("LookupError") }
             ELSE Converted("m", "molal", IF given = "" THEN "molal" ELSE given)
        ELSE IF front(quantity) = "a"
        THEN IF IsSpecies(back) THEN { Value("a") }
             ELSE Undefined("a")
        ELSE IF quantity = <<"p", "H">>
        THEN { Value("pH") }
        ELSE { Raised("UnsupportedQuantity") }

\* The expressions explored: a kind token of at most MaxKindLen characters,
\* then nothing or bracketed names, then nothing or a colon and units.
KindInputs ==
    UNION { [1..k -> {"n", "b", "m", "a", "p", "H", "x"}] : k \in 0..MaxKindLen }
NameInputs ==
    { <<>>, <<"[", "H2O(l)", "]">>, <<"[", "H+", "]">>, <<"[", "Xx", "]">>,
      <<"[", "H", "]">>, <<"[", "H", "]", "[", "Aqueous", "]">>,
      <<"[", "O", "]", "[", "Xx", "]">> }
UnitInputs ==
    { <<>>, <<":">>, <<":", "mmol">>, <<":", "molal">>, <<":", "meter">> }
Expressions ==
    { k \o nm \o u : k \in KindInputs, nm \in NameInputs, u \in UnitInputs }

\* One extract call on the freshly constructed state.
Extract ==
    /\ query = NoQuery
    /\ \E str \in Expressions : \E o \in extract(str) :
         query' = [str |-> str, status |-> o.status, kind |-> o.kind]
    /\ UNCHANGED <<heap, pimpl, last, calls, partition, made, solver, run>>

SpecExtract == Init /\ [][Extract]_vars

\* ------------------------------------------------------------------------
\* KineticSolver, as exported by export_KineticSolver: the constructor from
\* a ReactionSystem, setOptions, setPartition, initialize, the two step
\* overloads and solve. Time is counted in whole units of the smallest step
\* the integrator takes.
\* ------------------------------------------------------------------------

\* The number of KineticSolver calls of a run.
MaxSolverCalls == 3

\* The largest step size a caller asks for, and the integrator chooses.
MaxStep == 2

\* The largest end time given to solve.
MaxTime == 3

Min(a, b) == IF a <= b THEN a ELSE b

\* The sub-vector of n at the species indices idx.
rows(n, idx) == [k \in 1..Len(idx) |-> n[idx[k] + 1]]

\* The reaction network of the fixture: one reaction turning H2O(l) into
\* CO2(g), mole for mole, at a rate of half the amount of H2O(l) per unit
\* of time.
Stoichiometry == <<-1, 0, 1>>
rate(n) == RDiv(n[1], R(2, 1))

\* The solver's lifecycle state: Initialized while it holds a cached
\* decomposition that no setPartition has invalidated.
Lifecycle(sv) == IF sv.cached /\ ~sv.stale THEN "Initialized" ELSE "Configured"

\* setPartition rebuilding the cached decomposition for the new partition.
setPartition_Rebuild(sv, p) ==
    [sv EXCEPT !.partition = p, !.cache = p, !.stale = FALSE]

\* setPartition(partition): the active partition is replaced; a
\* decomposition cached by an earlier initialize is invalidated, not
\* rebuilt, and stays in the solver until the next initialize.
setPartition(sv, p) ==
    [sv EXCEPT !.partition = p, !.stale = sv.cached]

\* setOptions(options)
setOptions(sv, options) == [sv EXCEPT !.options = options]

\* The ODE advance of the kinetic sub-vector by the step dta: each kinetic
\* species changes by dta times its stoichiometric rate at the full n.
advance(n, ikinetic, dta) ==
    [k \in 1..Len(ikinetic) |->
        RAdd(n[ikinetic[k] + 1],
             RMul(R(dta * Stoichiometry[ikinetic[k] + 1], 1), rate(n)))]

\* The equilibrium re-solve for the equilibrium species with the kinetic
\* amounts nk held fixed: what the equilibrium and kinetic species held
\* together before, less nk, is spread evenly over the equilibrium species.
\* It does not converge on a negative balance.
equilibrate(n, iequilibrium, ikinetic, nk) ==
    LET be == RSub(RAdd(sum(rows(n, iequilibrium)), sum(rows(n, ikinetic))),
                   sum(nk))
    IN  [ converged |-> RGeq(be, Zero),
          ne |-> [k \in 1..Len(iequilibrium) |->
                    RDiv(be, R(Len(iequilibrium), 1))] ]

\* The position of the index i in the index list idx.
position(idx, i) == CHOOSE k \in 1..Len(idx) : idx[k] = i

\* The union of the inert amounts of n, the kinetic amounts nk and the
\* equilibrium amounts ne.
union(n, cache, nk, ne) ==
    [i \in 1..Len(n) |->
        IF i - 1 \in ToSet(cache.indices_kinetic_species)
        THEN nk[position(cache.indices_kinetic_species, i - 1)]
        ELSE IF i - 1 \in ToSet(cache.indices_equilibrium_species)
        THEN ne[position(cache.indices_equilibrium_species, i - 1)]
        ELSE n[i]]

\* An outcome of one step: the status, the ChemicalState and the time it
\* leaves, the step taken, the kinetic amounts the advance produced and
\* the kinetic amounts the equilibrium re-solve was given.
StepOutcome(status, st, t, dta, advanced, used) ==
    [ status |-> status, st |-> st, t |-> t, dta |-> dta,
      advanced |-> advanced, used |-> used ]

\* A step that commits the integrated kinetic amounts before the
\* equilibrium re-solve, and leaves them when the re-solve fails.
step_PartialCommit(s, t, dt, cache) ==
    LET iequilibrium == cache.indices_equilibrium_species
        ikinetic     == cache.indices_kinetic_species
        nk(d)        == advance(s.n, ikinetic, d)
        eq(d)        == equilibrate(s.n, iequilibrium, ikinetic, nk(d))
        good(d)      == /\ \A k \in 1..Len(ikinetic) : RGeq(nk(d)[k], Zero)
                        /\ eq(d).converged
    IN  IF dt = 0
        THEN { StepOutcome("ok", s, t, 0, rows(s.n, ikinetic), rows(s.n, ikinetic)) }
        ELSE { StepOutcome("ok", [s EXCEPT !.n = union(s.n, cache, nk(d), eq(d).ne)],
                           t + d, d, nk(d), nk(d)) : d \in { d \in 1..dt : good(d) } }
             \cup { StepOutcome("ConvergenceError", s, t, 0, <<>>, <<>>) }
             \cup { StepOutcome("ConvergenceError",
                                [s EXCEPT !.n = union(s.n, cache, nk(1),
                                                      rows(s.n, iequilibrium))],
                                t, 0, nk(1), nk(1)) }

\* step(state, t, dt) with the cached decomposition: the kinetic sub-vector
\* is advanced by a step dta of at most dt (reduced on a retry), the
\* equilibrium species are re-solved at the advanced kinetic amounts, and
\* the union is committed with the time t + dta. When the advance or the
\* re-solve fails with the retries exhausted (the last one at the smallest
\* step), the call raises and nothing is committed. A step of size 0 is a
\* no-op.
step(s, t, dt, cache) ==
    LET iequilibrium == cache.indices_equilibrium_species
        ikinetic     == cache.indices_kinetic_species
        nk(d)        == advance(s.n, ikinetic, d)
        eq(d)        == equilibrate(s.n, iequilibrium, ikinetic, nk(d))
        good(d)      == /\ \A k \in 1..Len(ikinetic) : RGeq(nk(d)[k], Zero)
                        /\ eq(d).converged
    IN  IF dt = 0
        THEN { StepOutcome("ok", s, t, 0, rows(s.n, ikinetic), rows(s.n, ikinetic)) }
        ELSE { StepOutcome("ok", [s EXCEPT !.n = union(s.n, cache, nk(d), eq(d).ne)],
                           t + d, d, nk(d), nk(d)) : d \in { d \in 1..dt : good(d) } }
             \cup { StepOutcome("ConvergenceError", s, t, 0, <<>>, <<>>) }
             \cup { StepOutcome("ConvergenceError", s, t, 0, nk(1), nk(1)) }

\* initialize(state, t0) on the ChemicalState s: the equilibrium species
\* are put in equilibrium with the composition of s.
initialize(s, cache) ==
    LET iequilibrium == cache.indices_equilibrium_species
        ikinetic     == cache.indices_kinetic_species
        eq == equilibrate(s.n, iequilibrium, ikinetic, rows(s.n, ikinetic))
    IN  IF eq.converged
        THEN [s EXCEPT !.n = union(s.n, cache, rows(s.n, ikinetic), eq.ne)]
        ELSE s

\* The size of the next step of solve: dt, without clipping at t1.
solveStepSize_Unclipped(t, t1, dt) == dt

\* The size of the next step of solve: dt, clipped so as to end at t1.
solveStepSize(t, t1, dt) == Min(dt, t1 - t)

\* The partitions given to setPartition.
PartitionInputs ==
    { allKineticExcept(<<2>>, <<>>), allEquilibriumExcept(<<0>>, <<1>>) }

OptionInputs == { "tight" }

\* The step and solve calls.
SteppingOps == { "step", "step(dt)", "solve" }

\* A further solver call is explored: no call is running and the run has
\* calls left.
SolverCanCall == run.pc = "idle" /\ run.calls < MaxSolverCalls

\* The record of a solver call that starts now.
Called(op) ==
    [run EXCEPT !.calls = @ + 1, !.op = op, !.status = "ok", !.dt = 0,
                !.dta = 0, !.steps = 0, !.advanced = <<>>, !.used = <<>>,
                !.with = NoPartition,
                !.pre = [n |-> S.n, t |-> run.t, solver |-> solver]]

\* A stepping call on a solver that holds no decomposition is rejected.
Rejected(op) ==
    /\ run' = [Called(op) EXCEPT !.status = "PreconditionViolation"]
    /\ UNCHANGED <<heap, pimpl, last, calls, partition, made, query, solver>>

\* The effect of the step outcome o on the ChemicalState and the time.
Commit(o) ==
    LET m1 == Store(Mem, "state", o.st)
    IN  /\ heap' = m1.heap
        /\ pimpl' = m1.pimpl

SolverSetOptions ==
    /\ SolverCanCall
    /\ \E options \in OptionInputs :
         /\ solver' = setOptions(solver, options)
         /\ run' = Called("setOptions")
    /\ UNCHANGED <<heap, pimpl, last, calls, partition, made, query>>

SolverSetPartition ==
    /\ SolverCanCall
    /\ \E p \in PartitionInputs :
         /\ solver' = setPartition(solver, p)
         /\ run' = Called("setPartition")
    /\ UNCHANGED <<heap, pimpl, last, calls, partition, made, query>>

\* initialize(state, t0): the decomposition of the active partition is
\* built and cached, and the caller's time starts at t0.
SolverInitialize ==
    /\ SolverCanCall
    /\ \E t0 \in {0} :
         /\ solver' = [solver EXCEPT !.cache = solver.partition,
                                     !.cached = TRUE, !.stale = FALSE]
         /\ Commit([st |-> initialize(S, solver.partition)])
         /\ run' = [Called("initialize") EXCEPT !.t = t0, !.t0 = t0,
                                                !.with = solver.partition]
    /\ UNCHANGED <<last, calls, partition, made, query>>

\* One step call op of size dt on a solver that holds a decomposition.
Stepping(op, dt) ==
    /\ \E o \in step(S, run.t, dt, solver.cache) :
         /\ Commit(o)
         /\ run' = [Called(op) EXCEPT !.status = o.status, !.t = o.t,
                                      !.dt = dt, !.dta = o.dta,
                                      !.steps = 1, !.advanced = o.advanced,
                                      !.used = o.used,
                                      !.with = solver.cache]
    /\ UNCHANGED <<last, calls, partition, made, query, solver>>

\* step(state, t): the step size is chosen by the integrator, from the
\* largest one downwards.
SolverStep ==
    /\ SolverCanCall
    /\ IF ~solver.cached THEN Rejected("step")
       ELSE Stepping("step", MaxStep)

\* step(state, t, dt)
SolverStepBy ==
    /\ SolverCanCall
    /\ IF ~solver.cached THEN Rejected("step(dt)")
       ELSE \E dt \in 0..MaxStep : Stepping("step(dt)", dt)

\* solve(state, t0, t1, dt) is entered: the time starts at t0.
SolverSolve ==
    /\ SolverCanCall
    /\ IF ~solver.cached THEN Rejected("solve")
       ELSE /\ \E t0 \in 0..1, t1 \in {0, MaxTime - 1, MaxTime},
                  dt \in 1..MaxStep :
                 run' = [Called("solve") EXCEPT !.pc = "loop",
                             !.status = "running", !.t = t0, !.t0 = t0,
                             !.t1 = t1, !.dt = dt, !.with = solver.cache,
                             !.pre = [n |-> S.n, t |-> t0, solver |-> solver]]
            /\ UNCHANGED <<heap, pimpl, last, calls, partition, made,
                           query, solver>>

\* One turn of the loop of solve: a step of the clipped size from the
\* time reached so far; the call ends when the step raises.
SolveStep ==
    /\ run.pc = "loop"
    /\ run.t < run.t1
    /\ \E o \in step(S, run.t, solveStepSize(run.t, run.t1, run.dt), run.with) :
         /\ Commit(o)
         /\ run' = [run EXCEPT !.pc = IF o.status = "ok" THEN "loop" ELSE "idle",
                               !.status = IF o.status = "ok" THEN "running"
                                          ELSE o.status,
                               !.t = o.t, !.dta = o.dta,
                               !.steps = @ + 1, !.advanced = o.advanced, !.used = o.used,
                               !.pre = [n |-> S.n, t |-> run.t,
                                        solver |-> solver]]
    /\ UNCHANGED <<last, calls, partition, made, query, solver>>

\* solve returns: the time has reached t1.
SolveReturn ==
    /\ run.pc = "loop"
    /\ run.t >= run.t1
    /\ run' = [run EXCEPT !.pc = "idle", !.status = "ok"]
    /\ UNCHANGED <<heap, pimpl, last, calls, partition, made, query, solver>>

\* The caller fills the ChemicalState, once, before or between the solver
\* calls.
SolverFill ==
    /\ run.pc = "idle"
    /\ calls = 0
    /\ calls' = calls + 1
    /\ \E n \in VectorInputs : \E o \in setSpeciesAmountsVector(S, n) :
         /\ Commit(o)
         /\ last' = [op |-> "setSpeciesAmounts(vector)",
                     args |-> [NoArgs EXCEPT !.vec = n],
                     status |-> o.status, pre |-> Settled]
         /\ run' = [run EXCEPT !.op = "setSpeciesAmounts(vector)",
                               !.status = o.status]
    /\ UNCHANGED <<partition, made, query, solver>>

SolverNext ==
    \/ SolverFill
    \/ SolverSetOptions
    \/ SolverSetPartition
    \/ SolverInitialize
    \/ SolverStep
    \/ SolverStepBy
    \/ SolverSolve
    \/ SolveStep
    \/ SolveReturn

SpecSolver == Init /\ [][SolverNext]_vars

\* ------------------------------------------------------------------------
\* Copies of a ChemicalState: the caller's two states are copy-constructed
\* and assigned from each other, and mutated one at a time.
\* ------------------------------------------------------------------------

\* An assignment that makes the handle dst share the Impl of src.
operatorAssign_Shared(mem, dst, src) ==
    [ heap  |-> mem.heap,
      pimpl |-> [mem.pimpl EXCEPT ![dst] = mem.pimpl[src]] ]

\* operator=(ChemicalState other) on the handle dst with the argument src:
\* the parameter other is copy-constructed from src, dst takes over its Impl
\* (pimpl = std::move(other.pimpl)), the Impl dst had is deleted and the
\* parameter, now empty, is destroyed. The Impl taken over is kept in the
\* cell of dst.
operatorAssign(mem, dst, src) ==
    LET m1 == copyConstruct(mem, "res", src)
    IN  [ heap  |-> [m1.heap EXCEPT ![Cell[dst]] = Deref(m1, "res"),
                                    ![Cell["res"]] = Nil],
          pimpl |-> [m1.pimpl EXCEPT ![dst] = Cell[dst], !["res"] = 0] ]

\* The mutator calls made on a copy, each with its outcomes on the Impl s:
\* one call for each of T, P, n, y and z, and a call that fails.
CopyMutations(s) ==
    { <<"setTemperature", setTemperature(s, R(300, 1))>>,
      <<"setPressure", setPressure(s, R(200000, 1))>>,
      <<"setSpeciesAmounts(vector)",
        setSpeciesAmountsVector(s, <<R(1, 1), Zero, R(2, 1)>>)>>,
      <<"setElementPotentials", setElementPotentials(s, <<R(1, 1), R(2, 1)>>)>>,
      <<"setSpeciesPotentials",
        setSpeciesPotentials(s, <<Zero, R(1, 1), Zero>>)>>,
      <<"scaleSpeciesAmounts", scaleSpeciesAmounts(s, R(2, 1))>>,
      <<"setVolume", setVolume(s, R(-1, 1))>> }

\* ChemicalState dst(src): the handle dst is constructed anew as a copy.
CopyConstruct ==
    /\ CanCall
    /\ calls' = calls + 1
    /\ \E dst \in {"state", "other"}, src \in {"state", "other"} :
         /\ dst # src
         /\ LET m1 == copyConstruct(Mem, dst, src)
            IN  /\ heap' = m1.heap
                /\ pimpl' = m1.pimpl
         /\ last' = [op |-> "ChemicalState(copy)",
                     args |-> [NoArgs EXCEPT !.l = dst, !.r = src],
                     status |-> "ok", pre |-> Mem]
    /\ UNCHANGED <<partition, made, query, solver, run>>

\* dst = src, the assignment of a state to itself included.
CopyAssign ==
    /\ CanCall
    /\ calls' = calls + 1
    /\ \E dst \in {"state", "other"}, src \in {"state", "other"} :
         /\ LET m1 == operatorAssign(Mem, dst, src)
            IN  /\ heap' = m1.heap
                /\ pimpl' = m1.pimpl
         /\ last' = [op |-> "operator=",
                     args |-> [NoArgs EXCEPT !.l = dst, !.r = src],
                     status |-> "ok", pre |-> Mem]
    /\ UNCHANGED <<partition, made, query, solver, run>>

\* A mutator call on one of the two states.
CopyMutate ==
    /\ CanCall
    /\ calls' = calls + 1
    /\ \E h \in {"state", "other"} :
         \E call \in CopyMutations(Deref(Mem, h)) : \E o \in call[2] :
            LET m1 == Store(Mem, h, o.st)
            IN  /\ heap' = m1.heap
                /\ pimpl' = m1.pimpl
                /\ last' = [op |-> call[1], args |-> [NoArgs EXCEPT !.l = h],
                            status |-> o.status, pre |-> Mem]
    /\ UNCHANGED <<partition, made, query, solver, run>>

CopyNext ==
    \/ CopyConstruct
    \/ CopyAssign
    \/ CopyMutate

SpecCopy == Init /\ [][CopyNext]_vars

\* ------------------------------------------------------------------------
\* Properties of ChemicalState
\* ------------------------------------------------------------------------

\* The Impl of the handle state before and after the last call.
Pre  == Deref(last.pre, "state")
Post == Deref(Mem, "state")

\* The last call was one of the mutators of the handle state.
Mutators ==
    { "setTemperature", "setPressure", "setSpeciesAmounts(scalar)",
      "setSpeciesAmounts(vector)", "setSpeciesAmounts(vector,indices)",
      "setSpeciesAmount(index)", "setSpeciesAmount(name)",
      "setSpeciesAmount(index,units)", "setSpeciesAmount(name,units)",
      "setVolume", "setPhaseVolume(index)", "setPhaseVolume(name)",
      "scaleSpeciesAmounts", "scaleSpeciesAmountsInPhase" }

Failed == last.status \in Errors

\* The caller's two states are as they were before the last call.
OperandsUnchanged ==
    \A h \in {"state", "other"} :
        /\ pimpl[h] = last.pre.pimpl[h]
        /\ Deref(Mem, h) = Deref(last.pre, h)

\* v scaled by the factor k, entry by entry.
Scaled(v, k) == [i \in 1..Len(v) |-> RMul(v[i], k)]

\* T > 0, P > 0 and n >= 0 in the Impl s.
Physical(s) ==
    /\ RGt(s.T, Zero)
    /\ RGt(s.P, Zero)
    /\ \A i \in 1..Len(s.n) : RGeq(s.n[i], Zero)

\* C1: after any sequence of successful mutator and combinator calls, every
\* state (the caller's and the one a combinator returned) has T > 0, P > 0
\* and every species amount >= 0.
C1_PhysicalState ==
    (last.status # "ub") =>
        \A h \in Handles : (pimpl[h] # 0) => Physical(Deref(Mem, h))

\* C2: a mutator call that ends in an error leaves T, P, n, y and z of the
\* state exactly as they were before the call.
C2_FailureLeavesState ==
    (last.op \in Mutators /\ Failed) => Post = Pre

\* C2 witness: a mutator failed on a state that earlier calls had changed.
C2_Witness ==
    /\ last.op \in Mutators
    /\ Failed
    /\ Pre.n # zeros(numSpecies)
    /\ Pre.T # Impl.T

\* C3: setSpeciesAmounts(vector) fails with the dimension-mismatch error,
\* changing nothing, when the length of the vector is not the number of
\* species; otherwise it succeeds, n becomes the vector and T, P, y, z stay.
C3_SetAmountsVector ==
    (last.op = "setSpeciesAmounts(vector)") =>
        IF Len(last.args.vec) # Len(Species)
        THEN last.status = "DimensionMismatch" /\ Post = Pre
        ELSE last.status = "ok" /\ Post = [Pre EXCEPT !.n = last.args.vec]

\* C3 witness: a vector that is too short was refused on a state holding
\* amounts, and (in another run) a vector of the right length was taken.
C3_Witness ==
    /\ last.op = "setSpeciesAmounts(vector)"
    /\ Len(last.args.vec) < Len(Species)
    /\ last.status = "DimensionMismatch"
    /\ Pre.n # zeros(numSpecies)

\* The value in kelvin / pascal the last setTemperature / setPressure call
\* was given.
GivenKelvin ==
    IF last.args.units = "celsius" THEN RAdd(last.args.val, R(27315, 100))
    ELSE last.args.val
GivenPascal ==
    IF last.args.units = "bar" THEN RMul(last.args.val, R(100000, 1))
    ELSE last.args.val

\* C4: setTemperature fails with a validation error exactly when the value
\* in kelvin is <= 0 and setPressure exactly when the value in pascal is
\* <= 0; a failing call changes nothing, a succeeding call sets only T
\* (only P) to that value.
C4_TemperaturePressure ==
    /\ (last.op = "setTemperature") =>
          IF RLeq(GivenKelvin, Zero)
          THEN last.status \in ValidationError /\ Post = Pre
          ELSE last.status = "ok" /\ Post = [Pre EXCEPT !.T = GivenKelvin]
    /\ (last.op = "setPressure") =>
          IF RLeq(GivenPascal, Zero)
          THEN last.status \in ValidationError /\ Post = Pre
          ELSE last.status = "ok" /\ Post = [Pre EXCEPT !.P = GivenPascal]

\* C4 witness: -1 degree celsius, a negative number that is positive in
\* kelvin, was accepted and stored as 272.15 K.
C4_Witness ==
    /\ last.op = "setTemperature"
    /\ last.args.units = "celsius"
    /\ RLt(last.args.val, Zero)
    /\ last.status = "ok"
    /\ Post.T = R(27215, 100)
    /\ Pre.T # Post.T

\* C5: scaleSpeciesAmounts(s) succeeds for s >= 0, multiplying every amount
\* by s and leaving T, P, y, z, and fails for s < 0; scalar * state and
\* state * scalar return a copy of the operand with the amounts so scaled,
\* fail for the same scalars, and leave the operand unchanged.
C5_Scale ==
    /\ (last.op = "scaleSpeciesAmounts") =>
          IF RGeq(last.args.val, Zero)
          THEN /\ last.status = "ok"
               /\ Post = [Pre EXCEPT !.n = Scaled(Pre.n, last.args.val)]
          ELSE last.status = "NegativeScalar" /\ Post = Pre
    /\ (last.op \in {"scalar*state", "state*scalar"}) =>
          /\ OperandsUnchanged
          /\ IF RGeq(last.args.val, Zero)
             THEN /\ last.status = "ok"
                  /\ pimpl["res"] # 0
                  /\ Deref(Mem, "res") =
                        [Deref(last.pre, last.args.l) EXCEPT
                            !.n = Scaled(Deref(last.pre, last.args.l).n,
                                         last.args.val)]
             ELSE last.status = "NegativeScalar" /\ pimpl["res"] = 0

\* C5 witness: a state holding amounts was multiplied by 1/2 from the left.
C5_Witness ==
    /\ last.op = "scalar*state"
    /\ last.args.l = "state"
    /\ last.args.val = R(1, 2)
    /\ last.status = "ok"
    /\ Pre.n # zeros(numSpecies)
    /\ Deref(Mem, "res").n # Pre.n

\* C6: state1 + state2 returns a state whose amounts are the elementwise
\* sum of the operands' amounts and whose T, P, y and z are those of the
\* left operand; neither operand is modified.
C6_Add ==
    (last.op = "operator+") =>
        LET l == Deref(last.pre, last.args.l)
            r == Deref(last.pre, last.args.r)
        IN  /\ last.status = "ok"
            /\ pimpl["res"] # 0
            /\ Deref(Mem, "res") =
                  [l EXCEPT !.n = [i \in 1..Len(l.n) |-> RAdd(l.n[i], r.n[i])]]
            /\ OperandsUnchanged

\* C6 witness: two states that differ in T, P, y, z and hold amounts were
\* added, the changed state on the left.
C6_Witness ==
    /\ last.op = "operator+"
    /\ last.args.l = "state"
    /\ last.args.r = "other"
    /\ Pre.n # zeros(numSpecies)
    /\ Pre.y # zeros(numElements)
    /\ Deref(Mem, "res").T # Deref(Mem, "other").T
    /\ Deref(Mem, "res").n # Pre.n

\* The species index the last setSpeciesAmount call named, numSpecies for
\* an unknown name.
GivenIndex ==
    IF last.op = "setSpeciesAmount(name)" THEN indexSpecies(last.args.name)
    ELSE last.args.index

\* C10: setSpeciesAmount(index|name, amount) fails with a LookupError for
\* an unknown name and with a ValidationError for a negative amount or an
\* index >= the number of species, changing nothing; otherwise it succeeds,
\* n[index] is the amount and every other amount, T, P, y, z are unchanged.
C10_SetSpeciesAmount ==
    (last.op \in {"setSpeciesAmount(index)", "setSpeciesAmount(name)"}) =>
        IF last.op = "setSpeciesAmount(name)"
           /\ last.args.name \notin { Species[i].name : i \in 1..Len(Species) }
        THEN last.status \in LookupError /\ Post = Pre
        ELSE IF RLt(last.args.val, Zero) \/ GivenIndex >= Len(Species)
        THEN last.status \in ValidationError /\ Post = Pre
        ELSE /\ last.status = "ok"
             /\ Post.n[GivenIndex + 1] = last.args.val
             /\ \A i \in 1..Len(Species) :
                    (i # GivenIndex + 1) => Post.n[i] = Pre.n[i]
             /\ Len(Post.n) = Len(Pre.n)
             /\ Post.T = Pre.T /\ Post.P = Pre.P
             /\ Post.y = Pre.y /\ Post.z = Pre.z

\* C10 witness: the amount of CO2(g) was set by name on a state whose other
\* amounts were not zero.
C10_Witness ==
    /\ last.op = "setSpeciesAmount(name)"
    /\ last.args.name = "CO2(g)"
    /\ last.status = "ok"
    /\ Pre.n[1] # Zero
    /\ Post.n[3] # Pre.n[3]

\* C14: in every state reached by successful mutator calls, n has as many
\* entries as the system has species, y as many as it has elements and z
\* as many as it has species; in the freshly constructed state the three
\* vectors are zero.
C14_VectorLengths ==
    (last.status # "ub") =>
        /\ Len(Post.n) = numSpecies
        /\ Len(Post.y) = numElements
        /\ Len(Post.z) = numSpecies
        /\ (last.op = "ChemicalState") =>
              /\ Post.n = zeros(numSpecies)
              /\ Post.y = zeros(numElements)
              /\ Post.z = zeros(numSpecies)

\* The species with the 1-based position i is in the phase index.
InPhase(index, i) ==
    /\ indexFirstSpeciesInPhase(index) < i
    /\ i <= indexFirstSpeciesInPhase(index) + numSpeciesInPhase(index)

\* The Impl s with the amounts of the species of the phase index
\* multiplied by k, and nothing else changed.
PhaseScaled(s, index, k) ==
    [s EXCEPT !.n = [i \in 1..Len(s.n) |->
                        IF InPhase(index, i) THEN RMul(s.n[i], k) ELSE s.n[i]]]

\* The phase a setPhaseVolume call names, by index or by name.
GivenPhase ==
    IF last.op = "setPhaseVolume(name)" THEN indexPhase(last.args.name)
    ELSE last.args.index

\* C16: scaleSpeciesAmountsInPhase and setPhaseVolume fail, changing
\* nothing, for a negative scalar or volume or a phase index that is not
\* below the number of phases. A scaleSpeciesAmountsInPhase call given
\* neither succeeds; and on success either call has multiplied the amounts
\* of the species of the phase's contiguous range by the scalar (for
\* setPhaseVolume: the volume over the current volume of the phase, or 0
\* when that volume is 0) and left the other amounts, T, P, y and z.
C16_PhaseScoped ==
    /\ (last.op = "scaleSpeciesAmountsInPhase") =>
          IF ~RGeq(last.args.val, Zero) \/ last.args.index >= numPhases
          THEN Failed /\ Post = Pre
          ELSE /\ last.status = "ok"
               /\ Post = PhaseScaled(Pre, last.args.index, last.args.val)
    /\ (last.op \in {"setPhaseVolume(index)", "setPhaseVolume(name)"}) =>
          IF ~RGeq(last.args.val, Zero) \/ GivenPhase >= numPhases
          THEN Failed /\ Post = Pre
          ELSE LET v == phaseVolumes(Pre.T, Pre.P, Pre.n)[GivenPhase + 1]
                   k == IF v = Zero THEN Zero ELSE RDiv(last.args.val, v)
               IN  /\ last.status = "ok" \/ Failed
                   /\ (last.status = "ok") => Post = PhaseScaled(Pre, GivenPhase, k)
                   /\ Failed => Post = Pre

\* C16 witness: setPhaseVolume by name succeeded on a state with amounts in
\* both phases, changing the amount in the named phase to another one that
\* is not 0, and leaving the amount in the other phase.
C16_Witness ==
    /\ last.op = "setPhaseVolume(name)"
    /\ last.status = "ok"
    /\ Pre.n[1] # Zero
    /\ Post.n[1] = Pre.n[1]
    /\ Post.n[3] # Pre.n[3]
    /\ Post.n[3] # Zero

\* C17: setVolume fails, changing nothing, for a negative volume; given
\* any other volume it succeeds and has multiplied every amount by the
\* volume over the sum of the current volumes of the phases (by 0 when
\* the sum is 0), leaving T, P, y and z; setVolume(0) leaves every amount 0.
C17_SetVolume ==
    (last.op = "setVolume") =>
        IF ~RGeq(last.args.val, Zero)
        THEN Failed /\ Post = Pre
        ELSE LET vtotal == sum(phaseVolumes(Pre.T, Pre.P, Pre.n))
                 k == IF vtotal = Zero THEN Zero
                      ELSE RDiv(last.args.val, vtotal)
             IN  /\ last.status = "ok"
                 /\ Post = [Pre EXCEPT !.n = Scaled(Pre.n, k)]
                 /\ (last.args.val = Zero) => Post.n = zeros(numSpecies)

\* The other one of the caller's two states.
Twin(h) == IF h = "state" THEN "other" ELSE "state"

\* C15: a state copy-constructed or assigned from another has the T, P, n,
\* y and z the other had at that moment, and the other keeps them; the two
\* states never share an Impl; and a mutator call on one of them, whether it
\* succeeds or fails, leaves T, P, n, y and z of the other as they were.
C15_IndependentCopies ==
    /\ pimpl["state"] # pimpl["other"]
    /\ (last.op \in {"ChemicalState(copy)", "operator="}) =>
          /\ Deref(Mem, last.args.l) = Deref(last.pre, last.args.r)
          /\ Deref(Mem, last.args.r) = Deref(last.pre, last.args.r)
          /\ Deref(Mem, Twin(last.args.l)) = Deref(last.pre, Twin(last.args.l))
    /\ (last.op \notin {"ChemicalState", "ChemicalState(copy)", "operator="}) =>
          Deref(Mem, Twin(last.args.l)) = Deref(last.pre, Twin(last.args.l))

\* C15 witness: the two states held the same data, which one of them had
\* got from the other by copy or assignment, and a mutator call changed
\* one of them.
C15_Witness ==
    /\ last.op \notin {"ChemicalState", "ChemicalState(copy)", "operator="}
    /\ last.status = "ok"
    /\ Deref(last.pre, "state") = Deref(last.pre, "other")
    /\ Deref(last.pre, "state").z \in {Impl.z, OtherImpl.z}
    /\ Deref(last.pre, "state").y \in {Impl.y, OtherImpl.y}
    /\ Deref(Mem, last.args.l) # Deref(last.pre, last.args.l)

\* ------------------------------------------------------------------------
\* Properties of Partition
\* ------------------------------------------------------------------------

Eq == ToSet(partition.indices_equilibrium_species)
Ki == ToSet(partition.indices_kinetic_species)
In == ToSet(partition.indices_inert_species)

AllSpecies == 0..(Len(Species) - 1)

DisjointLists(a, b) == ToSet(a) \cap ToSet(b) = {}
InRange(a) == \A i \in 1..Len(a) : a[i] < Len(Species)

\* What C7 concludes of the partition allEquilibriumExcept(system, K, I)
\* returned: K and I passed through, the equilibrium set apart from both,
\* the three sets together exactly the species.
ExceptResult ==
    /\ partition.indices_kinetic_species = made.a
    /\ partition.indices_inert_species = made.b
    /\ Eq \cap Ki = {}
    /\ Eq \cap In = {}
    /\ Eq \cup Ki \cup In = AllSpecies

\* C7 as stated: for any disjoint K and I the partition
\* allEquilibriumExcept(system, K, I) has kinetic = K, inert = I, an
\* equilibrium set disjoint from both, and the three sets together are
\* exactly 0..numSpecies-1.
C7_AsStated ==
    (made.by = "allEquilibriumExcept" /\ DisjointLists(made.a, made.b))
        => ExceptResult

\* C7 amended: the same for disjoint K and I that hold only indices of
\* species (every index < numSpecies).
C7_AllEquilibriumExcept ==
    (/\ made.by = "allEquilibriumExcept"
     /\ DisjointLists(made.a, made.b)
     /\ InRange(made.a) /\ InRange(made.b))
        => ExceptResult

\* C7 witness: allEquilibriumExcept was given a kinetic and an inert
\* species and left the third in equilibrium.
C7_Witness ==
    /\ made.by = "allEquilibriumExcept"
    /\ made.a # <<>> /\ made.b # <<>>
    /\ DisjointLists(made.a, made.b)
    /\ InRange(made.a) /\ InRange(made.b)
    /\ Eq # {}

\* Every species has exactly one of the three roles.
OneRoleEach ==
    /\ Eq \cap Ki = {} /\ Eq \cap In = {} /\ Ki \cap In = {}
    /\ \A i \in Eq \cup Ki \cup In : i < Len(Species)
    /\ Eq \cup Ki \cup In = AllSpecies

\* What C8 says of each factory in particular.
FactoryResult ==
    /\ (made.by = "allEquilibrium") =>
          Eq = AllSpecies /\ Ki = {} /\ In = {}
    /\ (made.by = "allKinetic") =>
          Ki = AllSpecies /\ Eq = {} /\ In = {}
    /\ (made.by = "allKineticExcept") =>
          /\ Ki = AllSpecies \ (ToSet(made.a) \cup ToSet(made.b))
          /\ partition.indices_equilibrium_species = made.a
          /\ partition.indices_inert_species = made.b

Factories ==
    { "allEquilibrium", "allKinetic", "allEquilibriumExcept", "allKineticExcept" }

\* C8 as stated: every partition a factory returns gives every species
\* exactly one role (the sets pairwise disjoint, within the species range,
\* together exhaustive), with the particular results of allEquilibrium,
\* allKinetic and allKineticExcept.
C8_AsStated ==
    (made.by \in Factories) => (OneRoleEach /\ FactoryResult)

\* C8 amended: the same, for allEquilibriumExcept and allKineticExcept only
\* when the two lists given are disjoint and hold only indices < numSpecies;
\* the particular results hold for any lists.
C8_Factories ==
    /\ (/\ made.by \in Factories
        /\ DisjointLists(made.a, made.b)
        /\ InRange(made.a) /\ InRange(made.b)) => OneRoleEach
    /\ (made.by \in Factories) => FactoryResult

\* C8 witness: allKineticExcept was given an equilibrium and an inert
\* species and made the third kinetic.
C8_Witness ==
    /\ made.by = "allKineticExcept"
    /\ made.a # <<>> /\ made.b # <<>>
    /\ DisjointLists(made.a, made.b)
    /\ InRange(made.a) /\ InRange(made.b)
    /\ Ki # {}

\* ------------------------------------------------------------------------
\* Properties of extract
\* ------------------------------------------------------------------------

\* The kind token of an expression: the text before its first [ or :
RECURSIVE KindToken(_)
KindToken(str) ==
    IF str = <<>> \/ Head(str) \in {"[", ":"} THEN <<>>
    ELSE <<Head(str)>> \o KindToken(Tail(str))

Kinds == { <<"n">>, <<"b">>, <<"m">>, <<"a">>, <<"p", "H">> }

\* C9: extract returns a value only when the kind token of the expression
\* is one of n, b, m, a, pH; with any other kind token it fails with the
\* UnsupportedQuantity error (stated of the calls whose behaviour is
\* defined).
C9_KindToken ==
    (query.status \notin {"none", "ub"}) =>
        /\ (query.status = "value") => KindToken(query.str) \in Kinds
        /\ (KindToken(query.str) \notin Kinds)
              => query.status = "UnsupportedQuantity"

\* ------------------------------------------------------------------------
\* Properties of KineticSolver
\* ------------------------------------------------------------------------

\* The last solver call was a step or a solve that was executed: it was
\* not rejected on entry.
Executed == run.op \in SteppingOps /\ run.status # "PreconditionViolation"

SolveGiven == run.op = "solve" /\ run.t0 <= run.t1 /\ run.dt > 0

\* C12: a solve(state, t0, t1, dt) with t0 <= t1 and dt > 0 ends after
\* finitely many steps: every turn of its loop can be taken and either
\* advances the time or ends the call by raising, so that the steps taken
\* are never more than the time covered (and one more for a step that
\* raised), which is at most t1 - t0. All along, the tracked time is at
\* least t0, never decreases and never exceeds t1; and when the call
\* returns, the time is t1 exactly.
C12_Solve ==
    /\ [](SolveGiven /\ Executed =>
            /\ run.t0 <= run.t /\ run.t <= run.t1
            /\ run.steps <= (run.t - run.t0)
                               + (IF run.status = "ConvergenceError" THEN 1 ELSE 0)
            /\ (run.status = "ok") => run.t = run.t1
            /\ (run.pc = "loop" /\ run.t < run.t1) =>
                  step(S, run.t, solveStepSize(run.t, run.t1, run.dt),
                       run.with) # {})
    /\ [][(SolveGiven /\ run.pc = "loop") =>
            /\ run'.t >= run.t
            /\ run'.t > run.t \/ run'.pc = "idle"]_vars

\* C12 witness: a solve returned after a last step that was clipped: the
\* distance from t0 to t1 is not a multiple of dt.
C12_Witness ==
    /\ SolveGiven
    /\ run.pc = "idle"
    /\ run.status = "ok"
    /\ run.t = run.t1
    /\ (run.t1 - run.t0) % run.dt # 0
    /\ run.steps > 1
    /\ S.n # run.pre.n

\* A step was executed by the last call: by a step call, or by a turn of
\* the loop of solve.
StepDone == Executed /\ run.steps > 0

\* C13: an executed step either commits everything or nothing. When it
\* succeeds, the equilibrium re-solve was given the kinetic amounts this
\* step's advance produced, the state holds these kinetic amounts, the
\* inert amounts it held before and equilibrium amounts re-solved at them,
\* and the time has advanced by the step taken. When it fails, the call
\* has raised a convergence error and the amounts and the time are the
\* ones before the call.
C13_StepAllOrNothing ==
    StepDone =>
        LET ikinetic == run.with.indices_kinetic_species
            iequilibrium == run.with.indices_equilibrium_species
        IN  IF run.status \in {"ok", "running"}
            THEN /\ run.used = run.advanced
                 /\ rows(S.n, ikinetic) = run.advanced
                 /\ run.dta > 0 =>
                      run.advanced = advance(run.pre.n, ikinetic, run.dta)
                 /\ rows(S.n, iequilibrium)
                      = IF run.dta > 0
                        THEN equilibrate(run.pre.n, iequilibrium, ikinetic,
                                         run.advanced).ne
                        ELSE rows(run.pre.n, iequilibrium)
                 /\ \A i \in 1..numSpecies :
                      (i - 1 \notin ToSet(ikinetic) \cup ToSet(iequilibrium))
                          => S.n[i] = run.pre.n[i]
                 /\ run.t = run.pre.t + run.dta
            ELSE /\ run.status = "ConvergenceError"
                 /\ S.n = run.pre.n
                 /\ run.t = run.pre.t

\* C13 witness: the equilibrium re-solve of a step failed after the
\* advance had produced kinetic amounts other than the state's.
C13_Witness ==
    /\ StepDone
    /\ run.status = "ConvergenceError"
    /\ run.advanced # <<>>
    /\ run.advanced # rows(run.pre.n, run.with.indices_kinetic_species)
    /\ run.with.indices_equilibrium_species # <<>>

\* A step succeeded that changed kinetic and equilibrium amounts and left
\* an inert one.
C13_Committed ==
    /\ StepDone
    /\ run.status = "ok"
    /\ run.with.indices_inert_species # <<>>
    /\ S.n # run.pre.n

====
